---------------------------- MODULE Spec2Model ----------------------------
(***************************************************************************)
(* BookDeviceShipment (src/unnamed/part_000, lines 92-716): the device     *)
(* intake dialog.  One mounted component, its React state, the async       *)
(* handlers it starts (each keeps the values of the render it was started  *)
(* in), and the backend tables it reads and writes.                        *)
(*                                                                         *)
(* Text is a sequence of one-character strings, so that formatting and     *)
(* parsing of identifiers and tray codes are computed, not assumed.        *)
(***************************************************************************)
EXTENDS Integers, Sequences, FiniteSets, TLC

(***************************************************************************)
(* Text helpers (JavaScript string and number functions used by the code)  *)
(***************************************************************************)
Digits == {"0", "1", "2", "3", "4", "5", "6", "7", "8", "9"}

DigitVal(c) ==
    CASE c = "0" -> 0 [] c = "1" -> 1 [] c = "2" -> 2 [] c = "3" -> 3
      [] c = "4" -> 4 [] c = "5" -> 5 [] c = "6" -> 6 [] c = "7" -> 7
      [] c = "8" -> 8 [] c = "9" -> 9

DigitChar(n) ==
    CASE n = 0 -> "0" [] n = 1 -> "1" [] n = 2 -> "2" [] n = 3 -> "3"
      [] n = 4 -> "4" [] n = 5 -> "5" [] n = 6 -> "6" [] n = 7 -> "7"
      [] n = 8 -> "8" [] n = 9 -> "9"

\* parseInt and arithmetic on it: NaN is the one non-number the code can meet
\* (every number it parses is a run of digits, hence >= 0).
NaN == -1

TRAY == <<"T", "R", "A", "Y">>

\* s.slice(0, n)
Slice(s, n) == SubSeq(s, 1, IF Len(s) < n THEN Len(s) ELSE n)

\* s.replace(pat, ''): the first occurrence of pat is removed
StartsAt(s, pat, i) ==
    /\ i + Len(pat) - 1 <= Len(s)
    /\ \A j \in 1..Len(pat) : s[i + j - 1] = pat[j]

ReplaceFirst(s, pat) ==
    LET hits == {i \in 1..Len(s) : StartsAt(s, pat, i)}
    IN  IF hits = {} THEN s
        ELSE LET i == CHOOSE h \in hits : \A g \in hits : h <= g
             IN  SubSeq(s, 1, i - 1) \o SubSeq(s, i + Len(pat), Len(s))

\* parseInt(s): the value of the leading run of digits, NaN when there is none
RECURSIVE DigitsValue(_, _)
DigitsValue(s, acc) ==
    IF s = <<>> \/ Head(s) \notin Digits THEN acc
    ELSE DigitsValue(Tail(s), 10 * acc + DigitVal(Head(s)))

ParseInt(s) ==
    IF s = <<>> \/ Head(s) \notin Digits THEN NaN ELSE DigitsValue(s, 0)

\* n.toString()
RECURSIVE NumToString(_)
NumToString(n) ==
    IF n = NaN THEN <<"N", "a", "N">>
    ELSE IF n < 10 THEN <<DigitChar(n)>>
    ELSE NumToString(n \div 10) \o <<DigitChar(n % 10)>>

\* s.padStart(width, '0')
RECURSIVE PadStart(_, _)
PadStart(s, width) ==
    IF Len(s) >= width THEN s ELSE PadStart(<<"0">> \o s, width)

\* a + b on JavaScript numbers
NumAdd(a, b) == IF a = NaN \/ b = NaN THEN NaN ELSE a + b

\* `TRAY${n.toString().padStart(3, '0')}`
TrayCode(n) == TRAY \o PadStart(NumToString(n), 3)

\* parseInt(code.replace('TRAY', ''))
TrayNumber(code) == ParseInt(ReplaceFirst(code, TRAY))

\* JavaScript string comparison (code units), used by ORDER BY location_code
CharRank(c) ==
    IF c \in Digits THEN DigitVal(c)
    ELSE CASE c = "A" -> 17 [] c = "N" -> 30 [] c = "R" -> 34 [] c = "S" -> 35
           [] c = "T" -> 36 [] c = "Y" -> 41 [] c = "a" -> 49 [] OTHER -> 60

RECURSIVE StrLess(_, _)
StrLess(a, b) ==
    IF b = <<>> THEN FALSE
    ELSE IF a = <<>> THEN TRUE
    ELSE IF Head(a) = Head(b) THEN StrLess(Tail(a), Tail(b))
    ELSE CharRank(Head(a)) < CharRank(Head(b))

\* /^\d{15}$/.test(s)
IMEI_LENGTH == 15
\* a check of the length alone, to compare with
HasImeiLength(s) == Len(s) = IMEI_LENGTH
IsImei(s) == Len(s) = IMEI_LENGTH /\ \A i \in 1..Len(s) : s[i] \in Digits

TAC_LENGTH == 8
TacOf(identifier) == Slice(identifier, TAC_LENGTH)

TRAY_CAPACITY == 50


(***************************************************************************)
(* Bounds of the model                                                     *)
(***************************************************************************)
\* entries in the working list (scans are not started beyond it)
MaxDevices == 2
\* handleIdentifierScan calls in flight at once
MaxInFlight == 2
\* handleSubmit calls that pass the preconditions
MaxSubmits == 2
\* calls of each loader in flight at once
MaxLoads == 1
\* TraySpec: entries already scanned when it starts, and entries the working
\* list may hold
PreScanned == 48
MaxTrayDevices == 52

(***************************************************************************)
(* Values                                                                  *)
(***************************************************************************)
\* null / undefined / '' of a string-valued state
Null == "null"
Empty == <<>>

\* identifiers the operator can type or scan
TacA == <<"3", "5", "0", "0", "0", "0", "0", "1">>
TacB == <<"3", "5", "0", "0", "0", "0", "0", "2">>
TacG == <<"3", "5", "0", "0", "0", "0", "0", "3">>
TacU == <<"3", "5", "0", "0", "0", "0", "0", "9">>
Serial7 == <<"0", "0", "0", "0", "0", "0", "7">>
ImeiA == TacA \o Serial7
ImeiB == TacB \o Serial7
ImeiC == TacB \o <<"0", "0", "0", "0", "0", "0", "8">>
ImeiG == TacG \o Serial7
ImeiU == TacU \o Serial7
ShortId == <<"1", "2", "3">>
AlphaId == TacA \o <<"0", "0", "0", "0", "0", "0", "A">>
Identifiers == {ImeiA, ImeiB, ImeiC, ImeiG, ImeiU, ShortId, AlphaId}

\* device_configurations rows (the table is only read)
DeviceConfigurations ==
    { [manufacturer |-> "Acme", model_name |-> "Alpha",
       available_colors |-> <<"Black">>, storage_options |-> <<"64">>],
      [manufacturer |-> "Acme", model_name |-> "Beta",
       available_colors |-> <<"Pink">>, storage_options |-> <<"128">>] }

\* tac_codes rows present before the session
InitialTacCodes ==
    << [tac_code |-> TacA, manufacturer |-> "Acme", model_name |-> "Alpha"],
       [tac_code |-> TacB, manufacturer |-> "Acme", model_name |-> "Beta"],
       [tac_code |-> TacG, manufacturer |-> "Acme", model_name |-> "Gamma"] >>

\* what the operator can enter in an entry's fields
ColorInputs == {"Black", "Pink"}
GradeInputs == {"1"}
PendingOrders == {"po1"}

Range(s) == {s[i] : i \in 1..Len(s)}

(***************************************************************************)
(* State                                                                   *)
(***************************************************************************)
VARIABLES
    deviceType,         \* prop: "cellular" | "serial"
    isOpen,             \* prop
    loading, error, devices, currentIdentifier, purchaseOrders, selectedPO,
    nextAvailableTray, batchQC, batchRepair, deviceConfig,   \* useState, lines 140-151
    enterKeys,          \* Enter key events handled (line 255), counted modulo 2
    scans,              \* handleIdentifierScan calls awaiting a reply
    trayLoads,          \* findNextAvailableTray calls awaiting their reply
    poLoads,            \* loadPurchaseOrders calls awaiting their reply
    submit,             \* the handleSubmit call in flight, if any
    storage_locations,  \* table: sequence of location codes, id = position
    tac_codes,          \* table: sequence of rows, id = position
    device_rows,        \* table cellular_devices / serial_devices of deviceType
    purchase_order,     \* row of the pending order: its two flags
    started,            \* handleSubmit calls that passed the preconditions
    booked, closed      \* calls of onShipmentBooked / onClose made by handleSubmit

ui == <<loading, error, devices, currentIdentifier, purchaseOrders, selectedPO,
        nextAvailableTray, batchQC, batchRepair, deviceConfig>>
procs == <<enterKeys, scans, trayLoads, poLoads, submit>>
tables == <<storage_locations, tac_codes, device_rows, purchase_order>>
calls == <<started, booked, closed>>
vars == <<deviceType, isOpen, ui, procs, tables, calls>>

NoConfig == [present |-> FALSE, available_colors |-> <<>>, storage_options |-> <<>>]
IdleSubmit == [pc |-> "idle", devices |-> <<>>, po |-> "", k |-> 0, tacId |-> 0,
               locationId |-> 0, inserted |-> 0]

\* storage_locations before the session
StorageScenarios ==
    { <<>>, <<TrayCode(1), TrayCode(2)>>, <<TrayCode(999), TrayCode(1000)>> }

\* device rows before the session
\* an id that is null or undefined (ids of rows are their positions, from 1)
NoId == 0
EarlierRow(identifier) ==
    [identifier |-> identifier, tac_id |-> NoId, status |-> "in_stock",
     location_id |-> NoId, created_by |-> "earlier"]
InitialDeviceRows == <<EarlierRow(ImeiB)>>

Init ==
    /\ deviceType \in {"cellular", "serial"}
    /\ isOpen = FALSE
    /\ loading = FALSE
    /\ error = Null
    /\ devices = <<>>
    /\ currentIdentifier = Empty
    /\ purchaseOrders = {}
    /\ selectedPO = ""
    /\ nextAvailableTray = Empty
    /\ batchQC = TRUE
    /\ batchRepair = FALSE
    /\ deviceConfig = NoConfig
    /\ enterKeys = 0
    /\ scans = <<>>
    /\ trayLoads = 0
    /\ poLoads = 0
    /\ submit = IdleSubmit
    /\ storage_locations \in StorageScenarios
    /\ tac_codes = InitialTacCodes
    /\ device_rows = InitialDeviceRows
    /\ purchase_order = [requires_qc |-> FALSE, requires_repair |-> FALSE]
    /\ started = 0
    /\ booked = 0
    /\ closed = 0


\* the state a session of the given type is in once the dialog is open, both
\* loaders have answered (two trays exist) and the entries of list are in the
\* working list
Opened(type, list) ==
    /\ deviceType = type
    /\ isOpen = TRUE
    /\ loading = FALSE
    /\ error = Null
    /\ devices = list
    /\ currentIdentifier = Empty
    /\ purchaseOrders = PendingOrders
    /\ selectedPO = ""
    /\ nextAvailableTray = TrayCode(3)
    /\ batchQC = TRUE
    /\ batchRepair = FALSE
    /\ deviceConfig = NoConfig
    /\ enterKeys = 0
    /\ scans = <<>>
    /\ trayLoads = 0
    /\ poLoads = 0
    /\ submit = IdleSubmit
    /\ storage_locations = <<TrayCode(1), TrayCode(2)>>
    /\ tac_codes = InitialTacCodes
    /\ device_rows = InitialDeviceRows
    /\ purchase_order = [requires_qc |-> FALSE, requires_repair |-> FALSE]
    /\ started = 0
    /\ booked = 0
    /\ closed = 0

(***************************************************************************)
(* Backend reads.  A request either is answered from the table or fails;   *)
(* the code keeps only `data` of a read, which is null on failure.         *)
(***************************************************************************)
\* .single(): the row when exactly one row matches, otherwise data is null
Single(rows) == IF Cardinality(rows) = 1 THEN rows ELSE {}

\* ids of the device rows with this identifier
DeviceIdsOf(identifier) ==
    {i \in 1..Len(device_rows) : device_rows[i].identifier = identifier}

TacIdsOf(tacCode) == {i \in 1..Len(tac_codes) : tac_codes[i].tac_code = tacCode}

LocationIdsOf(code) ==
    {i \in 1..Len(storage_locations) : storage_locations[i] = code}

ConfigRowsOf(manufacturer, model) ==
    {c \in DeviceConfigurations :
        c.manufacturer = manufacturer /\ c.model_name = model}

\* .order('location_code', { ascending: false }).limit(1)
LastLocations ==
    {c \in Range(storage_locations) :
        \A d \in Range(storage_locations) : ~StrLess(c, d)}

(***************************************************************************)
(* The dialog is opened and closed by its parent                           *)
(***************************************************************************)
\* useEffect on isOpen: both loaders are started
Open ==
    /\ ~isOpen
    /\ trayLoads < MaxLoads
    /\ poLoads < MaxLoads
    /\ isOpen' = TRUE
    /\ trayLoads' = trayLoads + 1
    /\ poLoads' = poLoads + 1
    /\ UNCHANGED <<deviceType, ui, enterKeys, scans, submit, tables, calls>>

\* the X and Cancel buttons: onClose of the parent
Close ==
    /\ isOpen
    /\ isOpen' = FALSE
    /\ UNCHANGED <<deviceType, ui, procs, tables, calls>>

\* loadPurchaseOrders, from its reply on
LoadPurchaseOrdersReply(ok) ==
    /\ poLoads > 0
    /\ poLoads' = poLoads - 1
    /\ purchaseOrders' = IF ok THEN PendingOrders ELSE purchaseOrders
    /\ UNCHANGED <<deviceType, isOpen, loading, error, devices, currentIdentifier,
                   selectedPO, nextAvailableTray, batchQC, batchRepair, deviceConfig,
                   enterKeys, scans, trayLoads, submit, tables, calls>>

\* the tray findNextAvailableTray computes from the rows the read returned
NextTrayAfter(locations) ==
    IF locations # {}
      THEN LET lastTray == CHOOSE c \in locations : TRUE
           IN  TrayCode(NumAdd(TrayNumber(lastTray), 1))
      ELSE TrayCode(1)

\* findNextAvailableTray, from its reply on
FindNextAvailableTrayReply(ok) ==
    /\ trayLoads > 0
    /\ trayLoads' = trayLoads - 1
    /\ nextAvailableTray' = NextTrayAfter(IF ok THEN LastLocations ELSE {})
    /\ UNCHANGED <<deviceType, isOpen, loading, error, devices, currentIdentifier,
                   purchaseOrders, selectedPO, batchQC, batchRepair, deviceConfig,
                   enterKeys, scans, poLoads, submit, tables, calls>>

\* assignTray(index), with the nextAvailableTray of the render that made it
AssignTray(tray, index) ==
    LET trayIndex == index \div TRAY_CAPACITY
        trayNumber == NumAdd(TrayNumber(tray), trayIndex)
    IN  TrayCode(trayNumber)

(***************************************************************************)
(* Plain state setters of the form                                         *)
(***************************************************************************)
SetCurrentIdentifier(value) ==
    /\ isOpen
    /\ currentIdentifier' = value
    /\ UNCHANGED <<deviceType, isOpen, loading, error, devices, purchaseOrders,
                   selectedPO, nextAvailableTray, batchQC, batchRepair, deviceConfig,
                   procs, tables, calls>>

\* the select offers '' and the loaded orders
SetSelectedPO(value) ==
    /\ isOpen
    /\ value \in purchaseOrders \cup {""}
    /\ selectedPO' = value
    /\ UNCHANGED <<deviceType, isOpen, loading, error, devices, currentIdentifier,
                   purchaseOrders, nextAvailableTray, batchQC, batchRepair,
                   deviceConfig, procs, tables, calls>>

SetBatchQC(value) ==
    /\ isOpen
    /\ batchQC' = value
    /\ UNCHANGED <<deviceType, isOpen, loading, error, devices, currentIdentifier,
                   purchaseOrders, selectedPO, nextAvailableTray, batchRepair,
                   deviceConfig, procs, tables, calls>>

SetBatchRepair(value) ==
    /\ isOpen
    /\ batchRepair' = value
    /\ UNCHANGED <<deviceType, isOpen, loading, error, devices, currentIdentifier,
                   purchaseOrders, selectedPO, nextAvailableTray, batchQC,
                   deviceConfig, procs, tables, calls>>


(***************************************************************************)
(* handleIdentifierScan (lines 253-317).  A call keeps currentIdentifier,  *)
(* devices, nextAvailableTray (through assignTray), batchQC and            *)
(* batchRepair of the render it was started in; of devices it reads the    *)
(* length and the identifiers.                                             *)
(***************************************************************************)
RemoveAt(s, i) == SubSeq(s, 1, i - 1) \o SubSeq(s, i + 1, Len(s))

Identifiers_(list) == [i \in 1..Len(list) |-> list[i].identifier]

FormatError == "IMEI must be exactly 15 digits"
ExistsError == IF deviceType = "cellular"
                 THEN "Device with this IMEI already exists"
                 ELSE "Device with this serial number already exists"

\* a handler that tests the length of the identifier alone, to compare with
KeyEnterLengthOnly(limit) ==
    /\ isOpen
    /\ enterKeys' = (enterKeys + 1) % 2
    /\ IF currentIdentifier = Empty
         THEN UNCHANGED <<error, scans>>
       ELSE IF deviceType = "cellular" /\ ~HasImeiLength(currentIdentifier)
         THEN /\ error' = FormatError
              /\ UNCHANGED scans
       ELSE /\ Len(scans) < MaxInFlight
            /\ Len(devices) + Len(scans) < limit
            /\ scans' = Append(scans,
                   [pc |-> "exists", identifier |-> currentIdentifier,
                    devices |-> Identifiers_(devices), tray |-> nextAvailableTray,
                    batchQC |-> batchQC, batchRepair |-> batchRepair,
                    manufacturer |-> "", model |-> ""])
            /\ UNCHANGED error
    /\ UNCHANGED <<deviceType, isOpen, loading, devices, currentIdentifier,
                   purchaseOrders, selectedPO, nextAvailableTray, batchQC,
                   batchRepair, deviceConfig, trayLoads, poLoads, submit,
                   tables, calls>>

\* Enter in the scan field, up to the first await (lines 253-268); limit bounds
\* the entries the model lets the working list hold
KeyEnter(limit) ==
    /\ isOpen
    /\ enterKeys' = (enterKeys + 1) % 2
    /\ IF currentIdentifier = Empty
         THEN UNCHANGED <<error, scans>>
       ELSE IF deviceType = "cellular" /\ ~IsImei(currentIdentifier)
         THEN /\ error' = FormatError
              /\ UNCHANGED scans
       ELSE /\ Len(scans) < MaxInFlight
            /\ Len(devices) + Len(scans) < limit
            /\ scans' = Append(scans,
                   [pc |-> "exists", identifier |-> currentIdentifier,
                    devices |-> Identifiers_(devices), tray |-> nextAvailableTray,
                    batchQC |-> batchQC, batchRepair |-> batchRepair,
                    manufacturer |-> "", model |-> ""])
            /\ UNCHANGED error
    /\ UNCHANGED <<deviceType, isOpen, loading, devices, currentIdentifier,
                   purchaseOrders, selectedPO, nextAvailableTray, batchQC,
                   batchRepair, deviceConfig, trayLoads, poLoads, submit,
                   tables, calls>>

\* newDevice of a call (lines 275-286, 300-301)
NewDevice(scan) ==
    [identifier |-> scan.identifier,
     manufacturer |-> scan.manufacturer,
     model |-> scan.model,
     color |-> "", storage |-> "", grade |-> "",
     status |-> "qc_required",
     location |-> AssignTray(scan.tray, Len(scan.devices)),
     requiresQC |-> scan.batchQC,
     requiresRepair |-> scan.batchRepair,
     error |-> <<>>]

\* lines 311-315: the end of a call
FinishScan(i, scan) ==
    /\ scans' = RemoveAt(scans, i)
    /\ IF scan.identifier \notin Range(scan.devices)
         THEN /\ devices' = Append(devices, NewDevice(scan))
              /\ currentIdentifier' = Empty
              /\ error' = Null
         ELSE UNCHANGED <<devices, currentIdentifier, error>>

\* the existence check answers (lines 264-286)
ExistsReply(i, ok) ==
    /\ i \in 1..Len(scans)
    /\ scans[i].pc = "exists"
    /\ LET scan == scans[i]
           existingDevice == IF ok THEN Single(DeviceIdsOf(scan.identifier)) ELSE {}
       IN  IF existingDevice # {}
             THEN /\ error' = ExistsError
                  /\ scans' = RemoveAt(scans, i)
                  /\ UNCHANGED <<devices, currentIdentifier>>
           ELSE IF deviceType = "cellular"
             THEN /\ scans' = [scans EXCEPT ![i].pc = "tac"]
                  /\ UNCHANGED <<devices, currentIdentifier, error>>
           ELSE FinishScan(i, scan)
    /\ UNCHANGED <<deviceType, isOpen, loading, purchaseOrders, selectedPO,
                   nextAvailableTray, batchQC, batchRepair, deviceConfig,
                   enterKeys, trayLoads, poLoads, submit, tables, calls>>

\* the tac_codes lookup answers (lines 288-302)
TacReply(i, ok) ==
    /\ i \in 1..Len(scans)
    /\ scans[i].pc = "tac"
    /\ LET scan == scans[i]
           tacInfo == IF ok THEN Single(TacIdsOf(TacOf(scan.identifier))) ELSE {}
       IN  IF tacInfo # {}
             THEN LET row == tac_codes[CHOOSE t \in tacInfo : TRUE]
                  IN  /\ scans' = [scans EXCEPT ![i].pc = "config",
                                                ![i].manufacturer = row.manufacturer,
                                                ![i].model = row.model_name]
                      /\ UNCHANGED <<devices, currentIdentifier, error>>
           ELSE FinishScan(i, scan)
    /\ UNCHANGED <<deviceType, isOpen, loading, purchaseOrders, selectedPO,
                   nextAvailableTray, batchQC, batchRepair, deviceConfig,
                   enterKeys, trayLoads, poLoads, submit, tables, calls>>

\* loadDeviceConfig (lines 203-227): the row, or null when there is none or
\* the read failed
LoadDeviceConfig(manufacturer, model, ok) ==
    LET data == IF ok THEN ConfigRowsOf(manufacturer, model) ELSE {}
    IN  IF Cardinality(data) = 1
          THEN LET row == CHOOSE c \in data : TRUE
               IN  [present |-> TRUE,
                    available_colors |-> row.available_colors,
                    storage_options |-> row.storage_options]
          ELSE NoConfig

\* loadDeviceConfig answers (lines 304-315)
ConfigReply(i, ok) ==
    /\ i \in 1..Len(scans)
    /\ scans[i].pc = "config"
    /\ LET scan == scans[i]
           config == LoadDeviceConfig(scan.manufacturer, scan.model, ok)
       IN  /\ deviceConfig' = IF config.present THEN config ELSE deviceConfig
           /\ FinishScan(i, scan)
    /\ UNCHANGED <<deviceType, isOpen, loading, purchaseOrders, selectedPO,
                   nextAvailableTray, batchQC, batchRepair,
                   enterKeys, trayLoads, poLoads, submit, tables, calls>>


(***************************************************************************)
(* Editing and removing entries                                            *)
(***************************************************************************)
Includes(list, value) == value \in Range(list)

\* device.storage_gb: DeviceEntry (lines 104-117) has no such property and
\* updateDevice never adds one, so the read yields undefined
StorageGbOf(device) == ""

\* validateDeviceConfig (lines 229-251): the messages joined into the error,
\* <<>> for null
ValidateDeviceConfig(device, config) ==
    IF ~config.present THEN <<>>
    ELSE (IF /\ Len(config.available_colors) > 0
             /\ device.color # ""
             /\ ~Includes(config.available_colors, device.color)
            THEN <<"Invalid color">> ELSE <<>>)
         \o
         (IF /\ Len(config.storage_options) > 0
             /\ StorageGbOf(device) # ""
             /\ ~Includes(config.storage_options, StorageGbOf(device))
            THEN <<"Invalid storage option">> ELSE <<>>)

\* the entry updateDevice puts in place of a matching one (lines 332-342)
UpdatedDevice(device, field, value) ==
    LET updatedDevice == [device EXCEPT ![field] = value]
    IN  [updatedDevice EXCEPT
            !.error = IF deviceConfig.present
                        THEN ValidateDeviceConfig(updatedDevice, deviceConfig)
                        ELSE <<>>]

\* values the field's control can produce: free text for the color, the
\* options of the loaded configuration for the storage (lines 627-672)
FieldInputs(field) ==
    CASE field = "color" -> ColorInputs \cup {""}
      [] field = "storage" -> Range(deviceConfig.storage_options) \cup {""}
      [] field = "grade" -> GradeInputs \cup {""}

EditableFields ==
    IF deviceType = "cellular" THEN {"color", "storage", "grade"}
    ELSE {"color", "grade"}

\* updateDevice (lines 329-346), called by an entry's control
UpdateDevice(identifier, field, value) ==
    /\ isOpen
    /\ \E i \in 1..Len(devices) :
          devices[i].identifier = identifier /\ devices[i][field] # value
    /\ devices' = [i \in 1..Len(devices) |->
                     IF devices[i].identifier = identifier
                       THEN UpdatedDevice(devices[i], field, value)
                       ELSE devices[i]]
    /\ UNCHANGED <<deviceType, isOpen, loading, error, currentIdentifier,
                   purchaseOrders, selectedPO, nextAvailableTray, batchQC,
                   batchRepair, deviceConfig, procs, tables, calls>>

\* prev.filter(d => d.identifier !== identifier)
RECURSIVE FilterOut(_, _)
FilterOut(list, identifier) ==
    IF list = <<>> THEN <<>>
    ELSE IF Head(list).identifier = identifier
      THEN FilterOut(Tail(list), identifier)
      ELSE <<Head(list)>> \o FilterOut(Tail(list), identifier)

\* a removeDevice that leaves the trays of the remaining entries as they are,
\* to compare with
RemoveDeviceKeepingTrays(identifier) ==
    /\ isOpen
    /\ \E i \in 1..Len(devices) : devices[i].identifier = identifier
    /\ devices' = FilterOut(devices, identifier)
    /\ UNCHANGED <<deviceType, isOpen, loading, error, currentIdentifier,
                   purchaseOrders, selectedPO, nextAvailableTray, batchQC,
                   batchRepair, deviceConfig, procs, tables, calls>>

\* removeDevice (lines 348-357), called by an entry's bin button
RemoveDevice(identifier) ==
    /\ isOpen
    /\ \E i \in 1..Len(devices) : devices[i].identifier = identifier
    /\ LET newDevices == FilterOut(devices, identifier)
       IN  devices' = [i \in 1..Len(newDevices) |->
                         [newDevices[i] EXCEPT
                            !.location = AssignTray(nextAvailableTray, i - 1)]]
    /\ UNCHANGED <<deviceType, isOpen, loading, error, currentIdentifier,
                   purchaseOrders, selectedPO, nextAvailableTray, batchQC,
                   batchRepair, deviceConfig, procs, tables, calls>>


(***************************************************************************)
(* handleSubmit (lines 359-482).  A call keeps devices and selectedPO of   *)
(* the render it was started in.  submit.k is the position (from 1) of the *)
(* entry the loop is at; submit.inserted counts the rows it has inserted.  *)
(***************************************************************************)
NoPOError == "Please select a purchase order"
NoDevicesError == "Please add at least one device"
DeviceErrorsError == "Please correct device configuration errors before proceeding"
GenericError == "An error occurred"

HasError(device) == device.error # <<>>

\* the flags of the first entry alone, to compare with
OrderFlagsOfFirst(list) ==
    [requires_qc |-> list[1].requiresQC, requires_repair |-> list[1].requiresRepair]

\* some(d => d.requiresQC), some(d => d.requiresRepair) (lines 384-385)
OrderFlags(list) ==
    [requires_qc |-> \E i \in 1..Len(list) : list[i].requiresQC,
     requires_repair |-> \E i \in 1..Len(list) : list[i].requiresRepair]

\* a status in which the repair flag wins, to compare with
StatusRepairFirst(device) ==
    IF device.requiresRepair THEN "repair"
    ELSE IF device.requiresQC THEN "qc_required" ELSE "in_stock"

\* lines 438, 465
StatusOf(device) ==
    IF device.requiresQC THEN "qc_required"
    ELSE IF device.requiresRepair THEN "repair" ELSE "in_stock"

\* the record handed to insert (lines 432-442, 459-469)
DeviceRow(device, tacId, locationId) ==
    [identifier |-> device.identifier, tac_id |-> tacId, status |-> StatusOf(device),
     location_id |-> locationId, created_by |-> "user"]

\* a handleSubmit without the test of the entries' errors, to compare with
HandleSubmitWithoutErrorTest ==
    IF selectedPO = ""
      THEN /\ error' = NoPOError
           /\ UNCHANGED <<loading, submit, started>>
    ELSE IF Len(devices) = 0
      THEN /\ error' = NoDevicesError
           /\ UNCHANGED <<loading, submit, started>>
    ELSE /\ started < MaxSubmits
         /\ loading' = TRUE
         /\ error' = Null
         /\ started' = started + 1
         /\ submit' = [IdleSubmit EXCEPT !.pc = "order", !.devices = devices,
                                         !.po = selectedPO, !.k = 1]

\* lines 359-378: the preconditions, then the purchase order update is sent
HandleSubmit ==
    IF selectedPO = ""
      THEN /\ error' = NoPOError
           /\ UNCHANGED <<loading, submit, started>>
    ELSE IF Len(devices) = 0
      THEN /\ error' = NoDevicesError
           /\ UNCHANGED <<loading, submit, started>>
    ELSE IF \E i \in 1..Len(devices) : HasError(devices[i])
      THEN /\ error' = DeviceErrorsError
           /\ UNCHANGED <<loading, submit, started>>
    ELSE /\ started < MaxSubmits
         /\ loading' = TRUE
         /\ error' = Null
         /\ started' = started + 1
         /\ submit' = [IdleSubmit EXCEPT !.pc = "order", !.devices = devices,
                                         !.po = selectedPO, !.k = 1]

\* a button that stays enabled while loading, to compare with
SubmitDisabledIgnoringLoading == Len(devices) = 0 \/ selectedPO = ""

\* the Book Shipment button (lines 693-696)
SubmitDisabled == loading \/ Len(devices) = 0 \/ selectedPO = ""

ClickSubmit ==
    /\ isOpen
    /\ ~SubmitDisabled
    /\ HandleSubmit
    /\ UNCHANGED <<deviceType, isOpen, devices, currentIdentifier, purchaseOrders,
                   selectedPO, nextAvailableTray, batchQC, batchRepair, deviceConfig,
                   enterKeys, scans, trayLoads, poLoads, tables, booked, closed>>

\* handleSubmit called whatever the button's state, while no other call of it
\* is under way
CallSubmit ==
    /\ isOpen
    /\ submit.pc = "idle"
    /\ HandleSubmit
    /\ UNCHANGED <<deviceType, isOpen, devices, currentIdentifier, purchaseOrders,
                   selectedPO, nextAvailableTray, batchQC, batchRepair, deviceConfig,
                   enterKeys, scans, trayLoads, poLoads, tables, booked, closed>>

\* the first request of the loop body for the entry at position k
FirstStep(device) ==
    IF deviceType = "cellular" THEN "tac"
    ELSE IF device.location # Empty THEN "location" ELSE "insert"

\* a catch without the finally block, to compare with
ThrowWithoutFinally(message, isError) ==
    /\ error' = IF isError THEN message ELSE GenericError
    /\ submit' = IdleSubmit
    /\ UNCHANGED <<loading, isOpen, booked, closed>>

\* catch and finally (lines 477-481); isError: the thrown value is an Error
Throw(message, isError) ==
    /\ error' = IF isError THEN message ELSE GenericError
    /\ loading' = FALSE
    /\ submit' = IdleSubmit
    /\ UNCHANGED <<isOpen, booked, closed>>

\* the purchase order update answers (lines 381-391)
OrderReply(ok, isError) ==
    /\ submit.pc = "order"
    /\ IF ok
         THEN /\ purchase_order' = OrderFlags(submit.devices)
              /\ submit' = [submit EXCEPT !.pc = FirstStep(submit.devices[1])]
              /\ UNCHANGED <<error, loading, isOpen, booked, closed>>
         ELSE /\ Throw("purchase order update failed", isError)
              /\ UNCHANGED purchase_order
    /\ UNCHANGED <<deviceType, devices, currentIdentifier, purchaseOrders, selectedPO,
                   nextAvailableTray, batchQC, batchRepair, deviceConfig,
                   enterKeys, scans, trayLoads, poLoads, storage_locations, tac_codes,
                   device_rows, started>>

\* the tac_codes lookup of the loop answers (lines 393-402, 415-417)
SubmitTacReply(ok) ==
    /\ submit.pc = "tac"
    /\ LET device == submit.devices[submit.k]
           tacData == IF ok THEN Single(TacIdsOf(TacOf(device.identifier))) ELSE {}
       IN  submit' = IF tacData = {}
                       THEN [submit EXCEPT !.pc = "tacInsert"]
                       ELSE [submit EXCEPT
                               !.tacId = CHOOSE t \in tacData : TRUE,
                               !.pc = IF device.location # Empty
                                        THEN "location" ELSE "insert"]
    /\ UNCHANGED <<deviceType, isOpen, ui, enterKeys, scans, trayLoads, poLoads,
                   tables, calls>>

\* the tac_codes insert answers (lines 403-414)
SubmitTacInsertReply(ok, isError) ==
    /\ submit.pc = "tacInsert"
    /\ LET device == submit.devices[submit.k]
       IN  IF ok
             THEN /\ tac_codes' = Append(tac_codes,
                        [tac_code |-> TacOf(device.identifier),
                         manufacturer |-> device.manufacturer,
                         model_name |-> device.model])
                  /\ submit' = [submit EXCEPT
                                  !.tacId = Len(tac_codes) + 1,
                                  !.pc = IF device.location # Empty
                                           THEN "location" ELSE "insert"]
                  /\ UNCHANGED <<error, loading, isOpen, booked, closed>>
             ELSE /\ Throw("tac code insert failed", isError)
                  /\ UNCHANGED tac_codes
    /\ UNCHANGED <<deviceType, devices, currentIdentifier, purchaseOrders, selectedPO,
                   nextAvailableTray, batchQC, batchRepair, deviceConfig,
                   enterKeys, scans, trayLoads, poLoads, storage_locations, device_rows,
                   purchase_order, started>>

\* the storage_locations lookup answers (lines 419-428, 446-455): location?.id
SubmitLocationReply(ok) ==
    /\ submit.pc = "location"
    /\ LET device == submit.devices[submit.k]
           location == IF ok THEN Single(LocationIdsOf(device.location)) ELSE {}
       IN  submit' = [submit EXCEPT
                        !.locationId = IF location = {} THEN NoId
                                       ELSE CHOOSE l \in location : TRUE,
                        !.pc = "insert"]
    /\ UNCHANGED <<deviceType, isOpen, ui, enterKeys, scans, trayLoads, poLoads,
                   tables, calls>>

\* the device insert answers (lines 430-444, 457-476)
SubmitInsertReply(ok, isError) ==
    /\ submit.pc = "insert"
    /\ LET device == submit.devices[submit.k]
       IN  IF ~ok
             THEN /\ Throw("device insert failed", isError)
                  /\ UNCHANGED device_rows
           ELSE /\ device_rows' = Append(device_rows,
                       DeviceRow(device, submit.tacId, submit.locationId))
                /\ IF submit.k < Len(submit.devices)
                     THEN /\ submit' = [submit EXCEPT
                                 !.k = submit.k + 1,
                                 !.inserted = submit.inserted + 1,
                                 !.tacId = NoId,
                                 !.locationId = NoId,
                                 !.pc = FirstStep(submit.devices[submit.k + 1])]
                          /\ UNCHANGED <<error, loading, isOpen, booked, closed>>
                     ELSE /\ booked' = booked + 1
                          /\ closed' = closed + 1
                          /\ isOpen' = FALSE
                          /\ loading' = FALSE
                          /\ submit' = IdleSubmit
                          /\ UNCHANGED error
    /\ UNCHANGED <<deviceType, devices, currentIdentifier, purchaseOrders, selectedPO,
                   nextAvailableTray, batchQC, batchRepair, deviceConfig,
                   enterKeys, scans, trayLoads, poLoads, storage_locations, tac_codes,
                   purchase_order, started>>

(***************************************************************************)
(* The specification.  Next is every event of the dialog; the narrower     *)
(* specifications below run the same actions on the part of the dialog a   *)
(* group of properties is about.                                           *)
(***************************************************************************)
Session ==
    \/ Open
    \/ Close
    \/ \E ok \in BOOLEAN : LoadPurchaseOrdersReply(ok)
    \/ \E ok \in BOOLEAN : FindNextAvailableTrayReply(ok)

ScanReplies ==
    \/ \E i \in 1..MaxInFlight, ok \in BOOLEAN : ExistsReply(i, ok)
    \/ \E i \in 1..MaxInFlight, ok \in BOOLEAN : TacReply(i, ok)
    \/ \E i \in 1..MaxInFlight, ok \in BOOLEAN : ConfigReply(i, ok)

Scanning(inputs) ==
    \/ \E value \in inputs : SetCurrentIdentifier(value)
    \/ KeyEnter(MaxDevices)
    \/ ScanReplies

Editing ==
    \E identifier \in Identifiers, field \in EditableFields :
       \E value \in FieldInputs(field) : UpdateDevice(identifier, field, value)

Removing == \E identifier \in Identifiers : RemoveDevice(identifier)

Ordering ==
    \/ \E value \in PendingOrders \cup {""} : SetSelectedPO(value)
    \/ \E value \in BOOLEAN : SetBatchQC(value)
    \/ \E value \in BOOLEAN : SetBatchRepair(value)

SubmitReplies ==
    \/ \E ok, isError \in BOOLEAN : OrderReply(ok, isError)
    \/ \E ok \in BOOLEAN : SubmitTacReply(ok)
    \/ \E ok, isError \in BOOLEAN : SubmitTacInsertReply(ok, isError)
    \/ \E ok \in BOOLEAN : SubmitLocationReply(ok)
    \/ \E ok, isError \in BOOLEAN : SubmitInsertReply(ok, isError)

Next ==
    \/ Session
    \/ Scanning(Identifiers \cup {Empty})
    \/ Editing
    \/ Removing
    \/ Ordering
    \/ ClickSubmit
    \/ SubmitReplies

Spec == Init /\ [][Next]_vars

\* one opening of the dialog: scanning and removing
ScanInputs == {ImeiA, ImeiB, ShortId, AlphaId, Empty}

ScanNext ==
    \/ Open
    \/ \E ok \in BOOLEAN : FindNextAvailableTrayReply(ok)
    \/ Scanning(ScanInputs)
    \/ Removing

ScanSpec == Init /\ [][ScanNext]_vars


\* a serial session with the dialog open, both loaders answered and the serial
\* numbers S01 .. S48 scanned one after the other, each scan answered before
\* the next; the feed goes on with the following serial numbers, and the first
\* entry may be removed
SerialNo(n) == <<"S">> \o PadStart(NumToString(n), 2)

ScannedInTurn(n) ==
    [i \in 1..n |->
       NewDevice([pc |-> "exists", identifier |-> SerialNo(i),
                  devices |-> [j \in 1..(i - 1) |-> SerialNo(j)],
                  tray |-> TrayCode(3), batchQC |-> TRUE, batchRepair |-> FALSE,
                  manufacturer |-> "", model |-> ""])]

TrayInit == Opened("serial", ScannedInTurn(PreScanned))

TrayNext ==
    \/ SetCurrentIdentifier(SerialNo(Len(devices) + Len(scans) + 1))
    \/ KeyEnter(MaxTrayDevices)
    \/ \E i \in 1..MaxInFlight, ok \in BOOLEAN : ExistsReply(i, ok)
    \/ RemoveDevice(SerialNo(1))

TraySpec == TrayInit /\ [][TrayNext]_vars

\* a cellular session in which entries are scanned and edited and the backend
\* answers every read
EditInputs == {ImeiA, ImeiC, ImeiG}

EditNext ==
    \/ \E value \in EditInputs : SetCurrentIdentifier(value)
    \/ KeyEnter(MaxDevices)
    \/ \E i \in 1..MaxInFlight : ExistsReply(i, TRUE)
    \/ \E i \in 1..MaxInFlight : TacReply(i, TRUE)
    \/ \E i \in 1..MaxInFlight : ConfigReply(i, TRUE)
    \/ Editing

EditSpec == Opened("cellular", <<>>) /\ [][EditNext]_vars

\* sessions in which entries are scanned and submitted
SubmitInputs == {ImeiA, ImeiU}

SubmitNext ==
    \/ Scanning(SubmitInputs)
    \/ \E value \in PendingOrders \cup {""} : SetSelectedPO(value)
    \/ ClickSubmit
    \/ SubmitReplies

SubmitInit == \E type \in {"cellular", "serial"} : Opened(type, <<>>)

SubmitSpec == SubmitInit /\ [][SubmitNext]_vars

\* a cellular session in which handleSubmit is called in every state of the
\* form, also those in which its button is disabled
HandlerInputs == {ImeiA}

HandlerNext ==
    \/ Scanning(HandlerInputs)
    \/ \E value \in ColorInputs : UpdateDevice(ImeiA, "color", value)
    \/ \E value \in PendingOrders \cup {""} : SetSelectedPO(value)
    \/ CallSubmit
    \/ SubmitReplies

HandlerSpec == Opened("cellular", <<>>) /\ [][HandlerNext]_vars

\* sessions in which the batch flags change between scans, the backend
\* answers every read of a scan, and the list is submitted
FlagsNext ==
    \/ \E value \in SubmitInputs : SetCurrentIdentifier(value)
    \/ KeyEnter(MaxDevices)
    \/ \E i \in 1..MaxInFlight : ExistsReply(i, TRUE)
    \/ \E i \in 1..MaxInFlight : TacReply(i, TRUE)
    \/ \E i \in 1..MaxInFlight : ConfigReply(i, TRUE)
    \/ \E value \in BOOLEAN : SetBatchQC(value)
    \/ \E value \in BOOLEAN : SetBatchRepair(value)
    \/ \E value \in PendingOrders : SetSelectedPO(value)
    \/ ClickSubmit
    \/ SubmitReplies

FlagsSpec == SubmitInit /\ [][FlagsNext]_vars

\* sessions in which the dialog is opened and closed, every read is answered
\* and entries are scanned
LoadInputs == {ImeiA}

LoadNext ==
    \/ Open
    \/ Close
    \/ LoadPurchaseOrdersReply(TRUE)
    \/ FindNextAvailableTrayReply(TRUE)
    \/ \E value \in LoadInputs : SetCurrentIdentifier(value)
    \/ KeyEnter(MaxDevices)
    \/ \E i \in 1..MaxInFlight : ExistsReply(i, TRUE)
    \/ \E i \in 1..MaxInFlight : TacReply(i, TRUE)
    \/ \E i \in 1..MaxInFlight : ConfigReply(i, TRUE)

LoadSpec == Init /\ [][LoadNext]_vars

\* sessions that scan and submit after another session has committed ImeiB
\* (the row of InitialDeviceRows)
LateInputs == {ImeiA, ImeiB}

LateNext ==
    \/ Scanning(LateInputs)
    \/ \E value \in PendingOrders \cup {""} : SetSelectedPO(value)
    \/ ClickSubmit
    \/ SubmitReplies

LateSpec == SubmitInit /\ [][LateNext]_vars

\* sessions in which the dialog, closed by a submission or by the operator, is
\* opened again in the same mounted component
ReopenInputs == {ImeiA}

ReopenNext ==
    \/ Open
    \/ Close
    \/ LoadPurchaseOrdersReply(TRUE)
    \/ FindNextAvailableTrayReply(TRUE)
    \/ \E value \in ReopenInputs : SetCurrentIdentifier(value)
    \/ KeyEnter(MaxDevices)
    \/ \E i \in 1..MaxInFlight : ExistsReply(i, TRUE)
    \/ \E i \in 1..MaxInFlight : TacReply(i, TRUE)
    \/ \E i \in 1..MaxInFlight : ConfigReply(i, TRUE)
    \/ \E value \in PendingOrders : SetSelectedPO(value)
    \/ ClickSubmit
    \/ SubmitReplies

ReopenSpec == SubmitInit /\ [][ReopenNext]_vars

\* the sessions of SubmitSpec in which every request of a submission is
\* answered in the end, by a result or by an error
FairSubmitSpec == SubmitSpec /\ WF_vars(SubmitReplies)

(***************************************************************************)
(* Properties of scanning and tray assignment                              *)
(***************************************************************************)
\* C1: in every state the entry at position i (from 0) of the working list
\* has the tray code of start + floor(i / 50), start being the number of
\* nextAvailableTray.
C1_TrayFollowsPosition ==
    \A i \in 1..Len(devices) :
        devices[i].location =
            TrayCode(NumAdd(TrayNumber(nextAvailableTray), (i - 1) \div TRAY_CAPACITY))

\* C2: in every state no two entries of the working list have the same
\* identifier.
C2_IdentifiersUnique ==
    \A i, j \in 1..Len(devices) :
        i # j => devices[i].identifier # devices[j].identifier

\* C8: when the existence check of a scan answers and the scanned identifier
\* is in the device table, the scan ends there: the working list is unchanged,
\* no lookup-table read follows, and the error names the kind.
ExistenceCheckAnswered(i) ==
    /\ i \in 1..Len(scans)
    /\ scans[i].pc = "exists"
    /\ \/ scans' = RemoveAt(scans, i)
       \/ scans' = [scans EXCEPT ![i].pc = "tac"]

C8_PersistedIdentifierRejected ==
    [][\A i \in 1..MaxInFlight :
         (ExistenceCheckAnswered(i) /\ DeviceIdsOf(scans[i].identifier) # {})
            => /\ scans' = RemoveAt(scans, i)
               /\ devices' = devices
               /\ error' = ExistsError]_vars

\* C9 as stated: in a cellular session every Enter on an identifier that is
\* not exactly 15 digits sets the format error, starts no backend call and
\* leaves the working list unchanged; in a serial session every Enter starts
\* the existence check.
EnterHandled == enterKeys' # enterKeys

C9_Original ==
    [][EnterHandled =>
         IF deviceType = "cellular"
           THEN ~IsImei(currentIdentifier)
                  => error' = FormatError /\ scans' = scans /\ devices' = devices
           ELSE Len(scans') = Len(scans) + 1]_vars

\* C9, amended: in a cellular session every Enter on a non-empty identifier
\* that is not exactly 15 digits sets the format error, starts no backend call
\* and leaves the working list unchanged; in a serial session every Enter on a
\* non-empty identifier starts the existence check with that identifier and
\* sets no error; an Enter on an empty field changes nothing in either.
C9_FormatCheckedBeforeBackend ==
    [][EnterHandled =>
         IF currentIdentifier = Empty
           THEN UNCHANGED <<ui, scans, tables>>
         ELSE IF deviceType = "cellular" /\ ~IsImei(currentIdentifier)
           THEN error' = FormatError /\ UNCHANGED <<devices, scans, tables>>
         ELSE /\ Len(scans') = Len(scans) + 1
              /\ scans'[Len(scans')].identifier = currentIdentifier
              /\ scans'[Len(scans')].pc = "exists"
              /\ UNCHANGED <<ui, tables>>]_vars

\* a cellular session shows the format error for a malformed identifier
C9_Witness ==
    /\ deviceType = "cellular"
    /\ error = FormatError
    /\ currentIdentifier # Empty
    /\ ~IsImei(currentIdentifier)
    /\ scans = <<>>

\* C10: in every state no tray is the location of more than 50 entries, and
\* the tray numbers in use are start, start + 1, ... without a gap, every tray
\* but the highest holding exactly 50 entries.
EntriesIn(code) == {i \in 1..Len(devices) : devices[i].location = code}
TraysInUse == {devices[i].location : i \in 1..Len(devices)}
TrayNumbersInUse == {TrayNumber(code) : code \in TraysInUse}

C10_TraysPackedFromStart ==
    /\ \A code \in TraysInUse : Cardinality(EntriesIn(code)) <= TRAY_CAPACITY
    /\ TraysInUse # {} =>
         LET start == TrayNumber(nextAvailableTray)
         IN  /\ NaN \notin TrayNumbersInUse \cup {start}
             /\ \E top \in TrayNumbersInUse :
                  /\ TrayNumbersInUse = start..top
                  /\ \A code \in TraysInUse :
                        TrayNumber(code) # top
                           => Cardinality(EntriesIn(code)) = TRAY_CAPACITY


(***************************************************************************)
(* Properties of attribute validation                                      *)
(***************************************************************************)
\* the color or the storage of the entry is outside what the configuration
\* record of its manufacturer and model allows
OutsideConfiguration(device) ==
    \E c \in ConfigRowsOf(device.manufacturer, device.model) :
        \/ device.color # "" /\ device.color \notin Range(c.available_colors)
        \/ device.storage # "" /\ device.storage \notin Range(c.storage_options)

\* C3: in every state an entry of the working list whose color or storage is
\* outside its configuration carries an error, and no handleSubmit call that
\* holds such an entry has passed the preconditions.
C3_OutsideConfigurationCarriesError ==
    /\ \A i \in 1..Len(devices) :
          OutsideConfiguration(devices[i]) => HasError(devices[i])
    /\ \A i \in 1..Len(submit.devices) : ~OutsideConfiguration(submit.devices[i])

\* C7: in every state an entry whose manufacturer and model have no
\* configuration record carries no validation error.
C7_NoConfigurationNoError ==
    \A i \in 1..Len(devices) :
        ConfigRowsOf(devices[i].manufacturer, devices[i].model) = {}
           => ~HasError(devices[i])

(***************************************************************************)
(* Properties of submission                                                *)
(***************************************************************************)
PreconditionFails ==
    \/ selectedPO = ""
    \/ Len(devices) = 0
    \/ \E i \in 1..Len(devices) : HasError(devices[i])

PreconditionError ==
    IF selectedPO = "" THEN NoPOError
    ELSE IF Len(devices) = 0 THEN NoDevicesError
    ELSE DeviceErrorsError

\* C4: a call of handleSubmit with no purchase order selected, with an empty
\* working list or with an entry that carries an error sets the message of
\* the failed precondition and changes nothing else: no request is sent, no
\* table changes, and the working list and the loading flag stay as they are.
C4_FailedPreconditionOnlySetsError ==
    [][(CallSubmit /\ PreconditionFails)
          => /\ error' = PreconditionError
             /\ UNCHANGED <<devices, loading, submit, started, tables, calls>>]_vars

\* handleSubmit has refused a list with an entry in error, an order being
\* selected, and nothing was ever sent
C4_Witness ==
    /\ error = DeviceErrorsError
    /\ selectedPO # ""
    /\ \E i \in 1..Len(devices) : HasError(devices[i])
    /\ ~loading
    /\ submit = IdleSubmit
    /\ started = 0
    /\ device_rows = InitialDeviceRows

\* a step of the submission fails: the purchase order update, the creation of
\* the lookup row or the insert of the entry is refused, or the tray of the
\* entry resolves to no storage location
StepFails ==
    \/ \E isError \in BOOLEAN : OrderReply(FALSE, isError)
    \/ \E isError \in BOOLEAN : SubmitTacInsertReply(FALSE, isError)
    \/ \E isError \in BOOLEAN : SubmitInsertReply(FALSE, isError)
    \/ /\ submit.pc = "location"
       /\ submit'.pc # "location"
       /\ submit'.locationId = NoId

\* the identifiers of the last n rows of the device table
LastInserted(n) ==
    [i \in 1..n |-> device_rows[Len(device_rows) - n + i].identifier]

\* C5: when a step of the submission fails for the entry at position k, the
\* submission ends there with an error shown: the rows it has inserted are
\* those of positions 0..k-1 in list order and stay, nothing further is
\* inserted, and neither onShipmentBooked nor onClose is called.
C5_FailedStepAborts ==
    [][StepFails
          => /\ submit'.pc = "idle"
             /\ error' \notin {Null, ""}
             /\ ~loading'
             /\ device_rows' = device_rows
             /\ LastInserted(submit.k - 1)
                   = [i \in 1..(submit.k - 1) |-> submit.devices[i].identifier]
             /\ UNCHANGED calls]_vars

\* C6: every row handleSubmit inserts for an entry with a tray carries as
\* location_id the id of the storage_locations row with that tray's code.
C6_InsertedRowHasLocation ==
    [][(submit.pc = "insert" /\ Len(device_rows') = Len(device_rows) + 1)
          => LET device == submit.devices[submit.k]
                 row == device_rows'[Len(device_rows')]
             IN  device.location # Empty
                    => row.location_id \in LocationIdsOf(device.location)]_vars

\* the submission in flight has made its last insert and calls onShipmentBooked
SubmitSucceeds == booked' = booked + 1

\* C11: a cellular submission adds a tac_codes row only for a prefix that has
\* no row yet, so never a second row for one prefix, and when it succeeds
\* every submitted identifier's 8-character prefix has a row.
C11_OneLookupRowPerPrefix ==
    [][/\ Len(tac_codes') > Len(tac_codes)
             => /\ Len(tac_codes') = Len(tac_codes) + 1
                /\ \A i \in 1..Len(tac_codes) :
                      tac_codes[i].tac_code # tac_codes'[Len(tac_codes')].tac_code
       /\ (SubmitSucceeds /\ deviceType = "cellular")
             => \A i \in 1..Len(submit.devices) :
                   \E j \in 1..Len(tac_codes') :
                      tac_codes'[j].tac_code = Slice(submit.devices[i].identifier, 8)]_vars

\* the device table gets a row
DeviceInserted == Len(device_rows') = Len(device_rows) + 1

SomeRequiresQC(list) == \E i \in 1..Len(list) : list[i].requiresQC
SomeRequiresRepair(list) == \E i \in 1..Len(list) : list[i].requiresRepair

\* C12: a submission takes the working list as it is when handleSubmit is
\* called; its purchase order update sets requires_qc exactly when some entry
\* of that list has requiresQC and requires_repair exactly when some entry has
\* requiresRepair, it is made before any row of the submission is inserted,
\* and every insert of the submission finds the order with these flags.
C12_OrderFlagsAreDisjunction ==
    [][/\ started' = started + 1 => submit'.devices = devices
       /\ (submit.pc = "order" /\ submit'.pc \notin {"order", "idle"})
             => /\ purchase_order'.requires_qc = SomeRequiresQC(submit.devices)
                /\ purchase_order'.requires_repair = SomeRequiresRepair(submit.devices)
                /\ submit.inserted = 0
                /\ device_rows' = device_rows
       /\ DeviceInserted
             => /\ purchase_order.requires_qc = SomeRequiresQC(submit.devices)
                /\ purchase_order.requires_repair = SomeRequiresRepair(submit.devices)]_vars

\* the order carries both flags for a list of two entries of which one is
\* flagged for QC only and the other for repair only, and the inserts follow
C12_Witness ==
    /\ submit.pc = "insert"
    /\ Len(submit.devices) = 2
    /\ submit.devices[1].requiresQC /\ ~submit.devices[1].requiresRepair
    /\ ~submit.devices[2].requiresQC /\ submit.devices[2].requiresRepair
    /\ purchase_order = [requires_qc |-> TRUE, requires_repair |-> TRUE]

\* C13: in a cellular and in a serial session every row inserted has status
\* 'qc_required' if the entry's requiresQC is set, otherwise 'repair' if its
\* requiresRepair is set, otherwise 'in_stock'.
C13_StatusFromFlags ==
    [][DeviceInserted
          => LET device == submit.devices[submit.k]
                 row == device_rows'[Len(device_rows')]
             IN  /\ row.identifier = device.identifier
                 /\ row.status = IF device.requiresQC THEN "qc_required"
                                 ELSE IF device.requiresRepair THEN "repair"
                                 ELSE "in_stock"]_vars

\* an entry with both flags set has been inserted with status 'qc_required',
\* another with the repair flag alone with status 'repair'
C13_Witness ==
    \E i, j \in 1..Len(devices) :
       /\ devices[i].requiresQC /\ devices[i].requiresRepair
       /\ ~devices[j].requiresQC /\ devices[j].requiresRepair
       /\ \E m, n \in 1..Len(device_rows) :
             /\ device_rows[m].created_by = "user"
             /\ device_rows[m].identifier = devices[i].identifier
             /\ device_rows[m].status = "qc_required"
             /\ device_rows[n].created_by = "user"
             /\ device_rows[n].identifier = devices[j].identifier
             /\ device_rows[n].status = "repair"

(***************************************************************************)
(* Properties of the starting tray                                         *)
(***************************************************************************)
\* the numerically greatest tray number among the storage locations
GreatestTrayNumber ==
    CHOOSE n \in {TrayNumber(storage_locations[i]) : i \in 1..Len(storage_locations)} :
       \A i \in 1..Len(storage_locations) : TrayNumber(storage_locations[i]) <= n

ExpectedStart ==
    IF storage_locations = <<>> THEN 1 ELSE GreatestTrayNumber + 1

\* C14: once findNextAvailableTray has completed, nextAvailableTray is the
\* code of the numerically greatest tray number among the storage locations
\* plus one, 'TRAY001' when there are none, and in every state the tray of
\* every entry is the code of that start or of a later number.
C14_StartIsGreatestPlusOne ==
    /\ nextAvailableTray # Empty => nextAvailableTray = TrayCode(ExpectedStart)
    /\ \A i \in 1..Len(devices) :
          \E k \in 0..Len(devices) : devices[i].location = TrayCode(ExpectedStart + k)

(***************************************************************************)
(* Properties of two sessions                                              *)
(***************************************************************************)
\* C15: the existence check of a scan guards an identifier another session
\* has committed: every scan made after that commit is rejected, so a session
\* whose scans all come after the commit never adds a second row with that
\* identifier to the device table.
C15_CommittedIdentifierStaysSingle ==
    \A m, n \in 1..Len(device_rows) :
       (device_rows[m].created_by = "earlier" /\ device_rows[n].created_by = "user")
          => device_rows[m].identifier # device_rows[n].identifier

(***************************************************************************)
(* Properties of the end of a submission                                   *)
(***************************************************************************)
\* C16: a submission that succeeds leaves the working list empty, and no
\* submission of the mounted component inserts a row for an identifier for
\* which an earlier submission of it has inserted one.
C16_SubmittedEntriesConsumed ==
    [][/\ SubmitSucceeds => devices' = <<>>
       /\ DeviceInserted
             => \A m \in 1..(Len(device_rows) - submit.inserted) :
                   device_rows[m].created_by = "user"
                      => device_rows[m].identifier
                            # device_rows'[Len(device_rows')].identifier]_vars

(***************************************************************************)
(* Frame properties of removeDevice and updateDevice                       *)
(***************************************************************************)
\* C17: a step that shortens the working list removes the entries with one
\* identifier: the others stay in their order with every field but location
\* as it was, the location of each is the tray of its new position, and
\* nothing but the list changes.
C17_RemoveKeepsOthers ==
    [][Len(devices') < Len(devices)
          => /\ \E i \in 1..Len(devices) :
                   LET kept == SelectSeq(devices,
                                   LAMBDA d : d.identifier # devices[i].identifier)
                   IN  /\ Len(devices') = Len(kept)
                       /\ \A j \in 1..Len(kept) :
                             devices'[j] =
                                [kept[j] EXCEPT !.location =
                                    TrayCode(NumAdd(TrayNumber(nextAvailableTray),
                                                    (j - 1) \div TRAY_CAPACITY))]
             /\ UNCHANGED <<deviceType, isOpen, loading, error, currentIdentifier,
                            purchaseOrders, selectedPO, nextAvailableTray, batchQC,
                            batchRepair, deviceConfig, procs, tables, calls>>]_vars

\* the first entry has been removed from a list of 51 and the entry that was
\* scanned as the 51st is the 50th, in the starting tray
C17_Witness ==
    /\ Len(devices) = TRAY_CAPACITY
    /\ devices[1].identifier = SerialNo(2)
    /\ devices[TRAY_CAPACITY].identifier = SerialNo(TRAY_CAPACITY + 1)
    /\ devices[TRAY_CAPACITY].location = nextAvailableTray

\* a step that changes fields of entries and neither adds nor removes one
EntriesEdited ==
    /\ devices' # devices
    /\ Len(devices') = Len(devices)
    /\ \A i \in 1..Len(devices) : devices'[i].identifier = devices[i].identifier

\* the messages for an entry whose color or storage the loaded configuration
\* does not allow
ColorMessage(device) ==
    IF /\ deviceConfig.available_colors # <<>>
       /\ device.color # ""
       /\ device.color \notin Range(deviceConfig.available_colors)
      THEN <<"Invalid color">> ELSE <<>>

StorageMessage(device) ==
    IF /\ deviceConfig.storage_options # <<>>
       /\ device.storage # ""
       /\ device.storage \notin Range(deviceConfig.storage_options)
      THEN <<"Invalid storage option">> ELSE <<>>

\* C18: an edit made with a configuration loaded leaves the edited entry with
\* the validation result of the whole updated entry, its color and its
\* storage both checked, so with no error when both conform; entries with
\* another identifier and the length and order of the list are unchanged.
C18_EditRevalidatesEntry ==
    [][(EntriesEdited /\ deviceConfig.present)
          => \E identifier \in Identifiers :
                \A i \in 1..Len(devices) :
                   IF devices[i].identifier = identifier
                     THEN devices'[i].error =
                             ColorMessage(devices'[i]) \o StorageMessage(devices'[i])
                     ELSE devices'[i] = devices[i]]_vars

(***************************************************************************)
(* Properties of the course of a submission                                *)
(***************************************************************************)
\* the requests of handleSubmit that write
WriteInFlight == submit.pc \in {"order", "tacInsert", "insert"}

\* C19: a handleSubmit passes its preconditions only while no other call is
\* under way and loading is false; while a call is under way loading is true,
\* a table changes only at the reply to the one write that is in flight, and
\* a write that is answered is no longer in flight when the next is issued.
C19_OneWriteInFlight ==
    [][/\ started' = started + 1
             => submit.pc = "idle" /\ ~loading /\ loading' /\ submit'.pc = "order"
       /\ submit.pc # "idle" => loading
       /\ tables' # tables => WriteInFlight /\ submit'.pc # submit.pc]_vars

\* a second submission is writing after the first has ended
C19_Witness ==
    /\ started = 2
    /\ submit.pc = "insert"
    /\ loading

\* the identifiers of the entries of a list
IdentifiersIn(list) == [i \in 1..Len(list) |-> list[i].identifier]

\* C20: every handleSubmit that has passed its preconditions ends, with
\* loading false; onShipmentBooked and onClose are called together, once, at
\* the last insert of a submission whose purchase order update and inserts
\* have all succeeded, and at no other step.
C20_SubmissionEndsAndCallsBack ==
    /\ (submit.pc # "idle") ~> (submit.pc = "idle" /\ ~loading)
    /\ [][/\ (booked' # booked \/ closed' # closed)
                => /\ booked' = booked + 1
                   /\ closed' = closed + 1
                   /\ DeviceInserted
                   /\ submit.k = Len(submit.devices)
                   /\ LastInserted(submit.k - 1)
                         = IdentifiersIn(SubSeq(submit.devices, 1, submit.k - 1))
                   /\ purchase_order.requires_qc = SomeRequiresQC(submit.devices)
                   /\ purchase_order.requires_repair
                         = SomeRequiresRepair(submit.devices)
          /\ (DeviceInserted /\ submit.k = Len(submit.devices))
                => booked' = booked + 1 /\ closed' = closed + 1
          /\ booked = closed
          /\ booked + (IF submit.pc = "idle" THEN 0 ELSE 1) <= started]_vars

\* one submission has failed and the next has succeeded: loading is false
\* again, an error was shown in between and the callbacks were called once
C20_Witness ==
    /\ started = 2
    /\ booked = 1
    /\ closed = 1
    /\ submit.pc = "idle"
    /\ ~loading

=============================================================================
